---- MODULE Spec2Model ----
(***************************************************************************)
(* Model of the two TMDB scripts, src/src/tmdb_weekly_trend.py (the        *)
(* "trending" script) and src/src/tmdb_historical.py (the "historical"     *)
(* script): fetch_json's retry loop, the paginated calls get_trending and  *)
(* discover_range, get_genre_map, normalize_trending / normalize_results,  *)
(* expand_by_genre, get_credits / top_cast_from_sample and the two main    *)
(* functions with the files they write.                                    *)
(*                                                                         *)
(* Python values: None in a text field is the string None below, a missing *)
(* number (None, pandas NaN) is NaN below, r.get(k) of an absent key is    *)
(* the same as a key holding None.  Texts that the code splits or joins    *)
(* (genre names, the "genres" column) are sequences of one-character       *)
(* strings.  A DataFrame is the sequence of its rows; a CSV file is the    *)
(* sequence of its data rows as to_csv writes them.  time.sleep and print  *)
(* change no state and are left out.                                       *)
(***************************************************************************)
EXTENDS Integers, Sequences, FiniteSets, TLC

\* ---------------------------------------------------------------- bounds
\* the pages argument of get_trending / discover_range (both mains pass 5)
MaxPages == 2
\* how many times the script is run in one behaviour, on a data directory
\* that an earlier run may have filled
MaxRuns == 1
\* largest --cast-sample argument tried
MaxSample == 2
\* longest result list handed to normalize in SpecPure
MaxLen == 3
\* longest genre_ids list of a record in SpecPure
MaxGenres == 2

\* ------------------------------------------------------- program constants
\* for attempt in range(3)
MaxAttempts == 3

None == "None"
NaN == -1
\* r.get("genre_ids") of a record without the key
NoneList == <<NaN>>

\* a or b, on text fields: the empty text and None are falsy
Or(a, b) == IF a # None /\ a # "" THEN a ELSE b

\* r.get("genre_ids") or []
OrList(x) == IF x = NoneList \/ x = <<>> THEN <<>> ELSE x

\* ------------------------------------------------------------- text helpers
Digit(d) == <<"0", "1", "2", "3", "4", "5", "6", "7", "8", "9">>[d + 1]

RECURSIVE Str(_)
\* str(gid) of a non-negative integer
Str(n) == IF n < 10 THEN <<Digit(n)>> ELSE Str(n \div 10) \o <<Digit(n % 10)>>

RECURSIVE Join(_, _)
\* sep.join(parts)
Join(sep, parts) ==
    IF parts = <<>> THEN <<>>
    ELSE IF Len(parts) = 1 THEN parts[1]
    ELSE parts[1] \o sep \o Join(sep, Tail(parts))

RECURSIVE Split(_, _)
\* s.split(c): the pieces between the occurrences of c, empty pieces kept
Split(s, c) ==
    IF \A i \in 1..Len(s) : s[i] # c THEN <<s>>
    ELSE LET i == CHOOSE k \in 1..Len(s) :
                      s[k] = c /\ \A j \in 1..(k - 1) : s[j] # c
         IN <<SubSeq(s, 1, i - 1)>> \o Split(SubSeq(s, i + 1, Len(s)), c)

RECURSIVE LStrip(_)
LStrip(s) == IF s # <<>> /\ s[1] = " " THEN LStrip(Tail(s)) ELSE s

RECURSIVE RStrip(_)
RStrip(s) ==
    IF s # <<>> /\ s[Len(s)] = " " THEN RStrip(SubSeq(s, 1, Len(s) - 1)) ELSE s

\* x.strip()
Strip(s) == RStrip(LStrip(s))

RECURSIVE Flatten(_)
\* the concatenation of a sequence of sequences
Flatten(ss) == IF ss = <<>> THEN <<>> ELSE ss[1] \o Flatten(Tail(ss))

\* ------------------------------------------------------------- genre map
\* genre_map.get(gid, str(gid))
GenreName(gm, gid) == IF gid \in DOMAIN gm THEN gm[gid] ELSE Str(gid)

RECURSIVE DictOf(_)
\* {g["id"]: g["name"] for g in genres}: a later entry of the same id wins
DictOf(genres) ==
    IF genres = <<>> THEN <<>>
    ELSE LET n == Len(genres)
             d == DictOf(SubSeq(genres, 1, n - 1))
             g == genres[n]
         IN [k \in (DOMAIN d) \cup {g.id} |-> IF k = g.id THEN g.name ELSE d[k]]

\* genre_map.update(tv): the tv entries override the movie entries
MergeGenres(movie, tv) ==
    LET m == DictOf(movie)
        t == DictOf(tv)
    IN [k \in (DOMAIN m) \cup (DOMAIN t) |-> IF k \in DOMAIN t THEN t[k] ELSE m[k]]

\* --------------------------------------------------------------- normalize
\* [genre_map.get(gid, str(gid)) for gid in genre_ids]
GenreNames(gm, r) ==
    LET ids == OrList(r.genre_ids)
    IN [i \in 1..Len(ids) |-> GenreName(gm, ids[i])]

TmdbUrl(r) ==
    IF r.media_type = "movie" THEN <<"movie", r.id>>
    ELSE IF r.media_type = "tv" THEN <<"tv", r.id>>
    ELSE <<>>

\* the row normalize_trending appends for the record r
TrendingRow(gm, r) ==
    [id |-> r.id,
     media_type |-> r.media_type,
     title |-> Or(r.title, r.name),
     date |-> Or(r.release_date, r.first_air_date),
     popularity |-> r.popularity,
     vote_average |-> r.vote_average,
     vote_count |-> r.vote_count,
     original_language |-> r.original_language,
     genres |-> Join(<<";", " ">>, GenreNames(gm, r)),
     overview |-> r.overview,
     poster_path |-> r.poster_path,
     backdrop_path |-> r.backdrop_path,
     tmdb_url |-> TmdbUrl(r)]

\* the row normalize_results appends for the record r
HistoricalRow(gm, r) ==
    [id |-> r.id,
     media_type |-> r.media_type,
     title |-> Or(r.title, r.name),
     date |-> Or(r.release_date, r.first_air_date),
     popularity |-> r.popularity,
     vote_average |-> r.vote_average,
     vote_count |-> r.vote_count,
     original_language |-> r.original_language,
     genres |-> Join(<<";", " ">>, GenreNames(gm, r))]

\* where a stable descending sort puts the row r among the sorted rows s:
\* behind every row whose popularity is at least r's
InsertUnstable(s, r) ==
    LET k == Cardinality({i \in 1..Len(s) : s[i].popularity > r.popularity})
    IN SubSeq(s, 1, k) \o <<r>> \o SubSeq(s, k + 1, Len(s))

Insert(s, r) ==
    LET k == Cardinality({i \in 1..Len(s) : s[i].popularity >= r.popularity})
    IN SubSeq(s, 1, k) \o <<r>> \o SubSeq(s, k + 1, Len(s))

RECURSIVE StableDesc(_)
StableDesc(rows) ==
    IF rows = <<>> THEN <<>>
    ELSE Insert(StableDesc(SubSeq(rows, 1, Len(rows) - 1)), rows[Len(rows)])

\* df.sort_values(by=["popularity"], ascending=False, kind="mergesort")
\* .reset_index(drop=True): the rows with a popularity in stable descending
\* order, then (na_position="last") the rows without one in their order
SortValues(rows) ==
    StableDesc(SelectSeq(rows, LAMBDA x : x.popularity # NaN))
        \o SelectSeq(rows, LAMBDA x : x.popularity = NaN)

normalize_trending(results, gm) ==
    SortValues([i \in 1..Len(results) |-> TrendingRow(gm, results[i])])

normalize_results(results, gm) ==
    SortValues([i \in 1..Len(results) |-> HistoricalRow(gm, results[i])])

\* ---------------------------------------------------------- expand_by_genre
\* [x.strip() for x in str(r["genres"]).split(";") if x and x.strip()]
GList(genres) ==
    LET parts == Split(genres, ";")
        kept == SelectSeq(parts, LAMBDA x : x # <<>> /\ Strip(x) # <<>>)
    IN [i \in 1..Len(kept) |-> Strip(kept[i])]

\* rr = r.copy(); rr["genre"] = g
WithGenre(r, g) == [k \in (DOMAIN r) \cup {"genre"} |-> IF k = "genre" THEN g ELSE r[k]]

\* the rows expand_by_genre appends for the row r
ExpandRowNoEmpty(r) ==
    LET g_list == GList(r.genres)
    IN [i \in 1..Len(g_list) |-> WithGenre(r, g_list[i])]

ExpandRow(r) ==
    LET g_list == GList(r.genres)
    IN IF g_list = <<>> THEN <<WithGenre(r, <<>>)>>
       ELSE [i \in 1..Len(g_list) |-> WithGenre(r, g_list[i])]

expand_by_genre(df) == Flatten([i \in 1..Len(df) |-> ExpandRow(df[i])])

\* ------------------------------------------------------------------- CSV
TextCols ==
    {"media_type", "title", "date", "original_language", "overview",
     "poster_path", "backdrop_path", "name"}

SeqCols == {"genres", "genre", "tmdb_url"}

\* what read_csv gives for an empty cell of a column of texts modelled as
\* character sequences (pandas: NaN)
NaNText == <<None>>

\* to_csv writes None / NaN as an empty cell
CsvCell(k, v) ==
    IF k \in TextCols THEN (IF v = None THEN "" ELSE v)
    ELSE IF k \in SeqCols THEN (IF v = NaNText THEN <<>> ELSE v)
    ELSE v

\* read_csv reads an empty cell as NaN
ReadCell(k, v) ==
    IF k \in TextCols THEN (IF v = "" THEN None ELSE v)
    ELSE IF k \in SeqCols THEN (IF v = <<>> THEN NaNText ELSE v)
    ELSE v

\* df.to_csv(path, index=False): the data rows of the file
to_csv(df) == [i \in 1..Len(df) |-> [k \in DOMAIN df[i] |-> CsvCell(k, df[i][k])]]

\* pd.read_csv(path)
read_csv(file) ==
    [i \in 1..Len(file) |-> [k \in DOMAIN file[i] |-> ReadCell(k, file[i][k])]]

\* pd.concat([old, df], ignore_index=True)
ConcatReversed(old, new) == new \o old

concat(old, new) == old \o new

\* df["week"] = week_label
AddWeek(df, label) ==
    [i \in 1..Len(df) |->
        [k \in (DOMAIN df[i]) \cup {"week"} |-> IF k = "week" THEN label ELSE df[i][k]]]

\* --------------------------------------------------------------- files
TrendingSnapshotAsCsv(s) == <<"clean", s>>

\* trending_{media}_{window}_raw_{STAMP}.json
RawPath(s) == <<"raw", s>>
\* genres.json / genres_historical.json
GenresPath == <<"genres", 0>>
\* ..._clean_{STAMP}.csv
CleanPath(s) == <<"clean", s>>
\* ..._by_genre_{STAMP}.csv
ByGenrePath(s) == <<"by_genre", s>>
\* historical_all_clean_latest.csv
CleanLatest == <<"clean_latest", 0>>
\* historical_all_by_genre_latest.csv
ByGenreLatest == <<"by_genre_latest", 0>>
\* trending_{media}_{window}_history.csv
HistPath == <<"history", 0>>
\* sample_cast_counts_{STAMP}.csv
CastPath(s) == <<"cast", s>>

\* where main of the trending script writes the raw snapshot (json, no CSV)
TrendingSnapshot(s) == RawPath(s)

CleanTargetsLatestEverywhere(sc, s) == {CleanPath(s), CleanLatest}

\* the paths the normalized table is written to
CleanTargets(sc, s) ==
    IF sc = "historical" THEN {CleanPath(s), CleanLatest} ELSE {CleanPath(s)}

\* the paths the by-genre table is written to
ByGenreTargets(sc, s) ==
    IF sc = "historical" THEN {ByGenrePath(s), ByGenreLatest} ELSE {ByGenrePath(s)}

IsCsv(p) ==
    p[1] \in {"clean", "by_genre", "clean_latest", "by_genre_latest", "history", "cast"}

\* the file system after writing content to every path of ps
Write(f, ps, content) ==
    [p \in (DOMAIN f) \cup ps |-> IF p \in ps THEN content ELSE f[p]]

\* ----------------------------------------------------------- fetch_json
Statuses == {200, 404, 500}

ExhaustedLate(a) == a + 1 > MaxAttempts

\* the for loop over range(3) ends after the failed attempt number a
Exhausted(a) == a + 1 >= MaxAttempts

\* ----------------------------------------------------------- pagination
\* for page in range(1, pages + 1)
InRange(p) == p <= MaxPages

NeverStops(page_results) == FALSE

\* if not page_results: break
StopsOn(page_results) == page_results = <<>>

\* for r in results: r["media_type"] = media_type
SetMediaType(results, media) ==
    [j \in 1..Len(results) |-> [results[j] EXCEPT !.media_type = media]]

\* ----------------------------------------------------------- get_credits
HasCreditsMovieOnly(media_type) == media_type = "movie"

\* get_credits fetches for "movie" and "tv" and returns an empty cast otherwise
HasCredits(media_type) == media_type \in {"movie", "tv"}

\* df.head(n), n >= 0
head(df, n) == SubSeq(df, 1, IF n < Len(df) THEN n ELSE Len(df))

RECURSIVE CountCast(_, _)
\* the loop over credits.get("cast", []): entries without a name are skipped
CountCast(counts, cast) ==
    IF cast = <<>> THEN counts
    ELSE LET name == cast[1].name
             rest == Tail(cast)
         IN IF name = None \/ name = "" THEN CountCast(counts, rest)
            ELSE IF \E j \in 1..Len(counts) : counts[j].name = name
            THEN CountCast([j \in 1..Len(counts) |->
                              IF counts[j].name = name
                              THEN [counts[j] EXCEPT !.count = @ + 1]
                              ELSE counts[j]], rest)
            ELSE CountCast(Append(counts, [name |-> name, count |-> 1]), rest)

RECURSIVE SortByCount(_)
\* out.sort_values("count", ascending=False).reset_index(drop=True)
SortByCount(rows) ==
    IF rows = <<>> THEN <<>>
    ELSE LET s == SortByCount(SubSeq(rows, 1, Len(rows) - 1))
             r == rows[Len(rows)]
             k == Cardinality({j \in 1..Len(s) : s[j].count >= r.count})
         IN SubSeq(s, 1, k) \o <<r>> \o SubSeq(s, k + 1, Len(s))

\* ------------------------------------------------------ server responses
\* a raw result record; a field the server leaves out holds None / NaN
Record(id, media_type, title, name, popularity, genre_ids) ==
    [id |-> id, media_type |-> media_type, title |-> title, name |-> name,
     release_date |-> IF title = None THEN None ELSE "2024-01-01",
     first_air_date |-> IF name = None THEN None ELSE "2024-02-02",
     genre_ids |-> genre_ids, popularity |-> popularity,
     vote_average |-> IF id = NaN THEN NaN ELSE 7,
     vote_count |-> IF id = NaN THEN NaN ELSE 100,
     original_language |-> IF id = NaN THEN None ELSE "en",
     overview |-> IF id = NaN THEN None ELSE "text",
     poster_path |-> None, backdrop_path |-> None]

\* records of /trending/all/week: a movie, a person (no credits endpoint),
\* a series, and a record in which every field is missing
Movie == Record(1, "movie", "X", None, 2, <<10, 99>>)
Person == Record(2, "person", None, "P", 2, NoneList)
Series == Record(3, "tv", None, "Y", 3, <<16>>)
Unidentified == Record(NaN, None, None, None, NaN, NoneList)

\* the pages /trending/{media}/{window} may answer with
TrendingPages == {<<>>, <<Movie, Person>>, <<Series, Unidentified>>}

\* a record of /discover/movie or /discover/tv (they send no media_type)
Discovered == Record(5, None, "M", "S", 1, <<10>>)

\* the pages /discover/{media} may answer with
DiscoverPages == {<<>>, <<Discovered>>}

\* /genre/movie/list and /genre/tv/list: the same id under two names
MovieGenreLists == {<<[id |-> 10, name |-> <<"H", "o", "r", "r", "o", "r">>]>>}
TvGenreLists ==
    {<<[id |-> 10, name |-> <<"D", "r", "a", "m", "a">>],
       [id |-> 16, name |-> <<"K", "i", "d", "s">>]>>}

\* the cast lists of /movie/{id}/credits and /tv/{id}/credits
CastLists == {<<>>, <<[name |-> None], [name |-> "Ann"]>>}

\* ------------------------------------------------------------------ state
VARIABLES
    script,        \* which script the behaviour runs: "trending" or "historical"
    pc,            \* position of the run
    exc,           \* the exception that ended the run, [type, status]
    runs,          \* runs started so far
    stamp,         \* STAMP / stamp: the date of the current run
    cast_sample,   \* args.cast_sample
    call,          \* the paginated call in progress: "trending", "movie", "tv"
    what,          \* what the fetch_json call in progress fetches
    page,          \* loop variable of the paginated call
    attempt,       \* loop variable of fetch_json
    last_resp,     \* fetch_json: status code of last_resp (NaN while it is None)
    gets,          \* number of GETs the current fetch_json call has made
    body,          \* what the last fetch_json call returned
    all_results,   \* all_results of the paginated call
    acc,           \* trending["results"] / main's all_results
    reqs,          \* pages requested by the current paginated call
    resps,         \* result lists the current paginated call received
    movie,         \* get_genre_map: the movie genre list
    genre_map,
    df,
    df_by_genre,
    fs,            \* the data directory: path -> content
    fs0,           \* the data directory when the current run started
    written,       \* paths written by the current run
    idx,           \* top_cast_from_sample: index of the next sampled row
    credit_log,    \* indices of the sampled rows a credits fetch was issued for
    cast_counts

vars ==
    <<script, pc, exc, runs, stamp, cast_sample, call, what, page, attempt, last_resp, gets,
      body, all_results, acc, reqs, resps, movie, genre_map, df, df_by_genre, fs,
      fs0, written, idx, credit_log, cast_counts>>

NoExc == [type |-> "none", status |-> 0]

LocalsInit ==
    /\ call = "none" /\ what = "none" /\ page = 0 /\ attempt = 0 /\ last_resp = NaN /\ gets = 0
    /\ body = <<>> /\ all_results = <<>> /\ acc = <<>> /\ reqs = <<>>
    /\ resps = <<>> /\ movie = <<>> /\ genre_map = <<>> /\ df = <<>>
    /\ df_by_genre = <<>> /\ idx = 0 /\ credit_log = <<>> /\ cast_counts = <<>>

\* the genre map both scripts build from the two fixed genre lists
PriorGenreMap ==
    MergeGenres(CHOOSE m \in MovieGenreLists : TRUE, CHOOSE t \in TvGenreLists : TRUE)

\* the data directory a completed run of the trending script leaves behind
\* when it starts from an empty directory on day s with --cast-sample 0 and
\* the server sends results
DirAfterTrending(results, s) ==
    LET d == AddWeek(normalize_trending(results, PriorGenreMap), s)
        f1 == Write(<<>>, {TrendingSnapshot(s)}, <<[results |-> results]>>)
        f2 == Write(f1, {GenresPath}, <<PriorGenreMap>>)
        f3 == Write(f2, CleanTargets("trending", s), to_csv(d))
        f4 == Write(f3, ByGenreTargets("trending", s), to_csv(expand_by_genre(d)))
    IN Write(f4, {HistPath}, to_csv(d))

\* the same for the historical script, which writes only if it has results
DirAfterHistorical(results, s) ==
    LET d == normalize_results(results, PriorGenreMap)
        f1 == Write(<<>>, {GenresPath}, <<PriorGenreMap>>)
        f2 == Write(f1, CleanTargets("historical", s), to_csv(d))
    IN IF results = <<>> THEN f1
       ELSE Write(f2, ByGenreTargets("historical", s), to_csv(expand_by_genre(d)))

\* the data directory at the start: empty, or as an earlier run on day 0 left it
PriorDirs(sc) ==
    IF sc = "trending"
    THEN {<<>>, DirAfterTrending(<<Movie, Person>>, 0)}
    ELSE {<<>>, DirAfterHistorical(SetMediaType(<<Discovered>>, "movie"), 0)}

Init ==
    /\ script \in {"trending", "historical"}
    /\ pc = "idle"
    /\ exc = NoExc
    /\ runs = 0
    /\ stamp = 0
    /\ cast_sample = 0
    /\ fs \in PriorDirs(script)
    /\ fs0 = fs
    /\ written = {}
    /\ LocalsInit

\* fetch_json(...) is called: last_resp = None, attempt = 0, no GET made yet
CallFetch(w) ==
    /\ pc' = "fetch"
    /\ what' = w
    /\ attempt' = 0
    /\ last_resp' = NaN
    /\ gets' = 0

\* a paginated call starts: all_results = [], page = 1
CallPaginated(c) ==
    /\ pc' = "pages"
    /\ call' = c
    /\ page' = 1
    /\ all_results' = <<>>
    /\ reqs' = <<>>
    /\ resps' = <<>>

\* the locals a new run starts with, apart from those of the call it makes
ResetData ==
    /\ body' = <<>> /\ acc' = <<>> /\ movie' = <<>> /\ genre_map' = <<>>
    /\ df' = <<>> /\ df_by_genre' = <<>> /\ idx' = 0 /\ credit_log' = <<>>
    /\ cast_counts' = <<>>

CanStart == pc \in {"idle", "done", "raised"} /\ runs < MaxRuns

\* ------------------------------------------------------------------ main
\* main, both scripts: TMDB_V4_TOKEN is not set
MissingToken ==
    /\ CanStart
    /\ runs' = runs + 1
    /\ pc' = "raised"
    /\ exc' = [type |-> "SystemExit", status |-> 0]
    /\ stamp' = stamp + 1
    /\ cast_sample' = 0
    /\ fs0' = fs
    /\ written' = {}
    /\ ResetData
    /\ call' = "none" /\ page' = 0 /\ all_results' = <<>> /\ reqs' = <<>>
    /\ resps' = <<>> /\ what' = "none" /\ attempt' = 0 /\ last_resp' = NaN /\ gets' = 0
    /\ UNCHANGED <<script, fs>>

\* main of the trending script up to its first fetch: STAMP is taken (a
\* run is made on a later day than the run before it) and
\* get_trending(pages=...) is entered.  (args.cast_sample is read in step 7
\* only; the model draws it there.)
StartTrending ==
    /\ CanStart
    /\ script = "trending"
    /\ runs' = runs + 1
    /\ stamp' = stamp + 1
    /\ cast_sample' = 0
    /\ exc' = NoExc
    /\ fs0' = fs
    /\ written' = {}
    /\ ResetData
    /\ CallPaginated("trending")
    /\ what' = "none" /\ attempt' = 0 /\ last_resp' = NaN /\ gets' = 0
    /\ UNCHANGED <<script, fs>>

\* main of the historical script up to its first fetch: stamp,
\* get_genre_map() is entered and calls fetch_json("/genre/movie/list")
StartHistorical ==
    /\ CanStart
    /\ script = "historical"
    /\ runs' = runs + 1
    /\ stamp' = stamp + 1
    /\ exc' = NoExc
    /\ fs0' = fs
    /\ written' = {}
    /\ ResetData
    /\ CallFetch("genre_movie")
    /\ call' = "none" /\ page' = 0 /\ all_results' = <<>> /\ reqs' = <<>>
    /\ resps' = <<>>
    /\ UNCHANGED <<script, cast_sample, fs>>

\* ------------------------------------------------------------ fetch_json
\* what the server may answer with status 200
Responses ==
    IF what = "page"
    THEN (IF call = "trending" THEN TrendingPages ELSE DiscoverPages)
    ELSE IF what = "genre_movie" THEN MovieGenreLists
    ELSE IF what = "genre_tv" THEN TvGenreLists
    ELSE CastLists

\* one GET answered 200: return resp.json()
Get200(resp) ==
    /\ pc = "fetch"
    /\ resp \in Responses
    /\ gets' = gets + 1
    /\ body' = resp
    /\ pc' = "got"
    /\ UNCHANGED <<script, exc, runs, stamp, cast_sample, call, what, page, attempt,
                   last_resp, all_results, acc, reqs, resps, movie, genre_map, df, df_by_genre,
                   fs, fs0, written, idx, credit_log, cast_counts>>

\* one GET answered with another status: the next attempt, or after the last
\* one raise RuntimeError(f"HTTP {last_resp.status_code} ...")
GetFail(status) ==
    /\ pc = "fetch"
    /\ status \in Statuses \ {200}
    /\ gets' = gets + 1
    /\ last_resp' = status
    /\ IF Exhausted(attempt)
       THEN /\ pc' = "raised"
            /\ exc' = [type |-> "RuntimeError", status |-> status]
            /\ UNCHANGED attempt
       ELSE /\ attempt' = attempt + 1
            /\ UNCHANGED <<pc, exc>>
    /\ UNCHANGED <<script, runs, stamp, cast_sample, call, what, page, body,
                   all_results, acc, reqs, resps, movie, genre_map, df, df_by_genre,
                   fs, fs0, written, idx, credit_log, cast_counts>>

\* ------------------------------------------- get_trending / discover_range
\* the loop head with a page left: fetch_json(path, params={"page": page})
NextPage ==
    /\ pc = "pages"
    /\ InRange(page)
    /\ CallFetch("page")
    /\ reqs' = Append(reqs, page)
    /\ UNCHANGED <<script, exc, runs, stamp, cast_sample, call, page, body,
                   all_results, acc, resps, movie, genre_map, df, df_by_genre, fs,
                   fs0, written, idx, credit_log, cast_counts>>

\* the loop head after the last page: the call returns
PagesDone ==
    /\ pc = "pages"
    /\ ~InRange(page)
    /\ pc' = "paged"
    /\ UNCHANGED <<script, exc, runs, stamp, cast_sample, call, what, page, attempt,
                   last_resp, gets, body, all_results, acc, reqs, resps, movie, genre_map, df,
                   df_by_genre, fs, fs0, written, idx, credit_log, cast_counts>>

\* the loop body after fetch_json returned a page
GotPage ==
    /\ pc = "got"
    /\ what = "page"
    /\ resps' = Append(resps, body)
    /\ IF StopsOn(body)
       THEN /\ pc' = "paged"
            /\ UNCHANGED <<all_results, page>>
       ELSE /\ all_results' =
                  all_results \o
                      (IF call = "trending" THEN body ELSE SetMediaType(body, call))
            /\ page' = page + 1
            /\ pc' = "pages"
    /\ body' = <<>>
    /\ attempt' = 0
    /\ last_resp' = NaN
    /\ gets' = 0
    /\ UNCHANGED <<script, exc, runs, stamp, cast_sample, call, what, acc, reqs,
                   movie, genre_map, df, df_by_genre, fs, fs0, written, idx,
                   credit_log, cast_counts>>

\* main of the trending script, step 1: get_trending returned, the raw
\* snapshot is written, get_genre_map() is entered
TrendingPaged ==
    /\ pc = "paged"
    /\ call = "trending"
    /\ acc' = all_results
    /\ fs' = Write(fs, {TrendingSnapshot(stamp)}, <<[results |-> all_results]>>)
    /\ written' = written \cup {TrendingSnapshot(stamp)}
    /\ CallFetch("genre_movie")
    /\ page' = 0
    /\ all_results' = <<>>
    /\ reqs' = <<>>
    /\ resps' = <<>>
    /\ UNCHANGED <<script, exc, runs, stamp, cast_sample, call, body, movie,
                   genre_map, df, df_by_genre, fs0, idx, credit_log, cast_counts>>

\* main of the historical script: discover_range("movie") returned,
\* discover_range("tv") is entered
MoviePaged ==
    /\ pc = "paged"
    /\ call = "movie"
    /\ acc' = acc \o all_results
    /\ CallPaginated("tv")
    /\ UNCHANGED <<script, exc, runs, stamp, cast_sample, what, attempt, last_resp, gets, body,
                   movie, genre_map, df, df_by_genre, fs, fs0, written, idx,
                   credit_log, cast_counts>>

\* main of the historical script: discover_range("tv") returned;
\* if not all_results: return
TvPaged ==
    /\ pc = "paged"
    /\ call = "tv"
    /\ acc' = acc \o all_results
    /\ pc' = IF acc \o all_results = <<>> THEN "done" ELSE "normalize"
    /\ page' = 0
    /\ all_results' = <<>>
    /\ reqs' = <<>>
    /\ resps' = <<>>
    /\ UNCHANGED <<script, exc, runs, stamp, cast_sample, call, what, attempt,
                   last_resp, gets, body, movie, genre_map, df, df_by_genre, fs, fs0,
                   written, idx, credit_log, cast_counts>>

\* ---------------------------------------------------------- get_genre_map
\* movie = fetch_json("/genre/movie/list") returned; fetch_json("/genre/tv/list")
GotGenreMovie ==
    /\ pc = "got"
    /\ what = "genre_movie"
    /\ movie' = body
    /\ CallFetch("genre_tv")
    /\ body' = <<>>
    /\ UNCHANGED <<script, exc, runs, stamp, cast_sample, call, page, all_results,
                   acc, reqs, resps, genre_map, df, df_by_genre, fs, fs0, written,
                   idx, credit_log, cast_counts>>

\* tv = fetch_json("/genre/tv/list") returned in the trending script: the
\* merged map is saved and returned to main
GotGenreTvTrending ==
    /\ pc = "got"
    /\ what = "genre_tv"
    /\ script = "trending"
    /\ genre_map' = MergeGenres(movie, body)
    /\ fs' = Write(fs, {GenresPath}, <<MergeGenres(movie, body)>>)
    /\ written' = written \cup {GenresPath}
    /\ pc' = "normalize"
    /\ body' = <<>>
    /\ attempt' = 0
    /\ last_resp' = NaN
    /\ gets' = 0
    /\ movie' = <<>>
    /\ UNCHANGED <<script, exc, runs, stamp, cast_sample, call, what, page,
                   all_results, acc, reqs, resps, df, df_by_genre, fs0, idx,
                   credit_log, cast_counts>>

\* the same in the historical script; main goes on to discover_range("movie")
GotGenreTvHistorical ==
    /\ pc = "got"
    /\ what = "genre_tv"
    /\ script = "historical"
    /\ genre_map' = MergeGenres(movie, body)
    /\ fs' = Write(fs, {GenresPath}, <<MergeGenres(movie, body)>>)
    /\ written' = written \cup {GenresPath}
    /\ CallPaginated("movie")
    /\ body' = <<>>
    /\ movie' = <<>>
    /\ UNCHANGED <<script, exc, runs, stamp, cast_sample, what, attempt, last_resp,
                   gets, acc, df, df_by_genre, fs0, idx, credit_log, cast_counts>>

\* ------------------------------------------------- main, after the fetches
\* trending step 3: df = normalize_trending(results, genre_map);
\* df["week"] = week_label.  historical: df = normalize_results(...)
Normalize ==
    /\ pc = "normalize"
    /\ df' = IF script = "trending"
             THEN AddWeek(normalize_trending(acc, genre_map), stamp)
             ELSE normalize_results(acc, genre_map)
    /\ pc' = "save_clean"
    /\ UNCHANGED <<script, exc, runs, stamp, cast_sample, call, what, page, attempt,
                   last_resp, gets, body, all_results, acc, reqs, resps, movie, genre_map,
                   df_by_genre, fs, fs0, written, idx, credit_log, cast_counts>>

\* df.to_csv(clean_path) (and, historical, df.to_csv(latest_clean_path))
SaveClean ==
    /\ pc = "save_clean"
    /\ fs' = Write(fs, CleanTargets(script, stamp), to_csv(df))
    /\ written' = written \cup CleanTargets(script, stamp)
    /\ pc' = "save_by_genre"
    /\ UNCHANGED <<script, exc, runs, stamp, cast_sample, call, what, page, attempt,
                   last_resp, gets, body, all_results, acc, reqs, resps, movie, genre_map, df,
                   df_by_genre, fs0, idx, credit_log, cast_counts>>

\* df_by_genre = expand_by_genre(df); df_by_genre.to_csv(by_genre_path) (and,
\* historical, to latest_by_genre_path, after which main returns)
SaveByGenre ==
    /\ pc = "save_by_genre"
    /\ df_by_genre' = expand_by_genre(df)
    /\ fs' = Write(fs, ByGenreTargets(script, stamp), to_csv(expand_by_genre(df)))
    /\ written' = written \cup ByGenreTargets(script, stamp)
    /\ pc' = IF script = "trending" THEN "history" ELSE "done"
    /\ UNCHANGED <<script, exc, runs, stamp, cast_sample, call, what, page, attempt,
                   last_resp, gets, body, all_results, acc, reqs, resps, movie, genre_map, df,
                   fs0, idx, credit_log, cast_counts>>

\* sample = df.head(sample_size), sample_size = min(args.cast_sample, len(df))
Sample == head(df, IF cast_sample < Len(df) THEN cast_sample ELSE Len(df))

\* trending step 6: the history file is read if it exists, the run's rows
\* are put behind its rows and the table is written back; then the guard of
\* step 7, if not df.empty and args.cast_sample > 0
AppendHistory(cs) ==
    /\ pc = "history"
    /\ cast_sample' = cs
    /\ LET hist == IF HistPath \in DOMAIN fs
                   THEN concat(read_csv(fs[HistPath]), df)
                   ELSE df
       IN fs' = Write(fs, {HistPath}, to_csv(hist))
    /\ written' = written \cup {HistPath}
    /\ IF df # <<>> /\ cs > 0
       THEN /\ pc' = "cast_loop"
            /\ idx' = 1
       ELSE /\ pc' = "done"
            /\ UNCHANGED idx
    /\ UNCHANGED <<script, exc, runs, stamp, call, what, page, attempt,
                   last_resp, gets, body, all_results, acc, reqs, resps, movie, genre_map, df,
                   df_by_genre, fs0, credit_log, cast_counts>>

\* -------------------------------------------------- top_cast_from_sample
\* int(row["id"]) of a row without an id raises
CastRowNoId ==
    /\ pc = "cast_loop"
    /\ idx <= Len(Sample)
    /\ Sample[idx].id = NaN
    /\ pc' = "raised"
    /\ exc' = [type |-> "ValueError", status |-> 0]
    /\ UNCHANGED <<script, runs, stamp, cast_sample, call, what, page, attempt, last_resp, gets,
                   body, all_results, acc, reqs, resps, movie, genre_map, df,
                   df_by_genre, fs, fs0, written, idx, credit_log, cast_counts>>

\* get_credits of a movie or tv row: fetch_json(f"/{media_type}/{id}/credits")
CastRowFetch ==
    /\ pc = "cast_loop"
    /\ idx <= Len(Sample)
    /\ Sample[idx].id # NaN
    /\ HasCredits(Sample[idx].media_type)
    /\ CallFetch("credits")
    /\ credit_log' = Append(credit_log, idx)
    /\ UNCHANGED <<script, exc, runs, stamp, cast_sample, call, page, body,
                   all_results, acc, reqs, resps, movie, genre_map, df, df_by_genre,
                   fs, fs0, written, idx, cast_counts>>

\* get_credits of any other row returns {"cast": [], "crew": []} without a fetch
CastRowSkip ==
    /\ pc = "cast_loop"
    /\ idx <= Len(Sample)
    /\ Sample[idx].id # NaN
    /\ ~HasCredits(Sample[idx].media_type)
    /\ idx' = idx + 1
    /\ UNCHANGED <<script, pc, exc, runs, stamp, cast_sample, call, what, page,
                   attempt, last_resp, gets, body, all_results, acc, reqs, resps, movie,
                   genre_map, df, df_by_genre, fs, fs0, written, credit_log,
                   cast_counts>>

\* the credits came back: the names of the cast are counted
GotCredits ==
    /\ pc = "got"
    /\ what = "credits"
    /\ cast_counts' = CountCast(cast_counts, body)
    /\ idx' = idx + 1
    /\ pc' = "cast_loop"
    /\ body' = <<>>
    /\ attempt' = 0
    /\ last_resp' = NaN
    /\ gets' = 0
    /\ UNCHANGED <<script, exc, runs, stamp, cast_sample, call, what, page,
                   all_results, acc, reqs, resps, movie, genre_map, df, df_by_genre,
                   fs, fs0, written, credit_log>>

\* the sample is done: top_cast_from_sample returns the sorted counts and
\* main writes them to cast_path
CastFinish ==
    /\ pc = "cast_loop"
    /\ idx > Len(Sample)
    /\ fs' = Write(fs, {CastPath(stamp)}, to_csv(SortByCount(cast_counts)))
    /\ written' = written \cup {CastPath(stamp)}
    /\ pc' = "done"
    /\ cast_counts' = <<>>
    /\ UNCHANGED <<script, exc, runs, stamp, cast_sample, call, what, page, attempt,
                   last_resp, gets, body, all_results, acc, reqs, resps, movie,
                   genre_map, df, df_by_genre, fs0, idx, credit_log>>

Next ==
    \/ MissingToken
    \/ StartTrending
    \/ StartHistorical
    \/ \E resp \in Responses : Get200(resp)
    \/ \E status \in Statuses : GetFail(status)
    \/ NextPage
    \/ PagesDone
    \/ GotPage
    \/ TrendingPaged
    \/ MoviePaged
    \/ TvPaged
    \/ GotGenreMovie
    \/ GotGenreTvTrending
    \/ GotGenreTvHistorical
    \/ Normalize
    \/ SaveClean
    \/ SaveByGenre
    \/ \E cs \in 0..MaxSample : AppendHistory(cs)
    \/ CastRowNoId
    \/ CastRowFetch
    \/ CastRowSkip
    \/ GotCredits
    \/ CastFinish

Spec == Init /\ [][Next]_vars

\* --------------------------------------- normalize and expand on their own
\* the sequences over S of length at most n
SeqsUpTo(S, n) == UNION {[1..k -> S] : k \in 0..n}

\* records that differ in id and popularity, for the sort
SortRecords ==
    {Record(id, "movie", "T", None, p, <<>>) : id \in {NaN, 1, 2}, p \in {NaN, 1, 2}}

\* records that differ in their genre ids (10 is in the genre map, 11 is not)
GenreRecords ==
    {Record(1, "tv", None, "T", 1, g) : g \in SeqsUpTo({10, 11}, MaxGenres) \cup {NoneList}}

\* names the server may give genre 10
GenreNameChoices ==
    {<<"a">>, <<"a", " ", "b">>, <<" ", "a">>, <<>>, <<" ">>, <<";">>,
     <<"a", ";", "b">>}

PureInputs ==
    (SeqsUpTo(SortRecords, MaxLen) \X {PriorGenreMap})
        \cup (SeqsUpTo(GenreRecords, MaxLen - 1)
                \X {[k \in {10} |-> n] : n \in GenreNameChoices})

PureInit ==
    /\ script \in {"trending", "historical"}
    /\ pc = "pure"
    /\ \E in \in PureInputs : acc = in[1] /\ genre_map = in[2]
    /\ exc = NoExc /\ runs = 0 /\ stamp = 0 /\ cast_sample = 0
    /\ fs = <<>> /\ fs0 = <<>> /\ written = {}
    /\ call = "none" /\ what = "none" /\ page = 0 /\ attempt = 0
    /\ last_resp = NaN /\ gets = 0 /\ body = <<>> /\ all_results = <<>>
    /\ reqs = <<>> /\ resps = <<>> /\ movie = <<>> /\ df = <<>>
    /\ df_by_genre = <<>> /\ idx = 0 /\ credit_log = <<>> /\ cast_counts = <<>>

\* df = normalize_trending(results, genre_map) / normalize_results(...)
PureNormalize ==
    /\ pc = "pure"
    /\ df' = IF script = "trending" THEN normalize_trending(acc, genre_map)
             ELSE normalize_results(acc, genre_map)
    /\ pc' = "pure_normalized"
    /\ UNCHANGED <<script, exc, runs, stamp, cast_sample, call, what, page, attempt,
                   last_resp, gets, body, all_results, acc, reqs, resps, movie,
                   genre_map, df_by_genre, fs, fs0, written, idx, credit_log,
                   cast_counts>>

\* df_by_genre = expand_by_genre(df)
PureExpand ==
    /\ pc = "pure_normalized"
    /\ df_by_genre' = expand_by_genre(df)
    /\ pc' = "pure_expanded"
    /\ UNCHANGED <<script, exc, runs, stamp, cast_sample, call, what, page, attempt,
                   last_resp, gets, body, all_results, acc, reqs, resps, movie,
                   genre_map, df, fs, fs0, written, idx, credit_log, cast_counts>>

PureNext == PureNormalize \/ PureExpand

SpecPure == PureInit /\ [][PureNext]_vars

\* ====================================================================
\* Properties
\* ====================================================================
CsvWritten == {p \in written : IsCsv(p)}

\* no CSV file has been created or rewritten since the run started
CsvUntouched ==
    /\ CsvWritten = {}
    /\ \A p \in (DOMAIN fs) \cup (DOMAIN fs0) :
          IsCsv(p) => p \in DOMAIN fs /\ p \in DOMAIN fs0 /\ fs[p] = fs0[p]

FetchFailed == pc = "raised" /\ exc.type = "RuntimeError"

\* the results of the pages received so far, as the call collects them
Collected ==
    Flatten([k \in 1..Len(resps) |->
                IF call = "trending" THEN resps[k] ELSE SetMediaType(resps[k], call)])

\* C1: in a paginated call (get_trending, discover_range) the pages are
\* requested as 1, 2, 3, ... without gaps, at most MaxPages of them, none
\* after a page that came back empty, and the list the call holds (and
\* returns) is the concatenation in page order of the pages received.
C1_Pagination ==
    call # "none" =>
        /\ reqs = [k \in 1..Len(reqs) |-> k]
        /\ Len(reqs) <= MaxPages
        /\ Len(resps) <= Len(reqs)
        /\ Len(reqs) <= Len(resps) + 1
        /\ \A k \in 1..(Len(reqs) - 1) : resps[k] # <<>>
        /\ all_results = Collected

\* a call that stopped at an empty second page after a first page with results
C1_Witness ==
    /\ pc = "paged"
    /\ Len(resps) = 2
    /\ resps[1] # <<>>
    /\ resps[2] = <<>>
    /\ all_results = resps[1]

\* C2: a fetch_json call makes at most 3 GETs; it returns at its first 200
\* (every GET before it failed) and makes no GET afterwards; it raises
\* RuntimeError with the last status exactly after 3 failed GETs; and a call
\* that has made no GET yet has its whole budget, whatever came before.
C2_FetchJson ==
    /\ gets <= MaxAttempts
    /\ pc = "fetch" => gets = attempt /\ gets < MaxAttempts
    /\ pc = "fetch" /\ gets > 0 => last_resp \in Statuses \ {200}
    /\ pc = "got" => gets = attempt + 1
    /\ FetchFailed =>
          /\ gets = MaxAttempts
          /\ last_resp \in Statuses \ {200}
          /\ exc.status = last_resp

\* the second page of a call is returned by the third GET of its fetch
C2_Witness ==
    /\ pc = "got"
    /\ what = "page"
    /\ Len(reqs) = 2
    /\ gets = MaxAttempts

\* C3 as claimed: once any fetch has failed for good, the run has written no
\* CSV file.
C3_NoCsvAfterAnyFailure == FetchFailed => CsvWritten = {}

\* C3 as amended: once a fetch of a page or of a genre list has failed for
\* good, the run has created or rewritten no CSV file; once a credits fetch
\* has failed for good, the run has written the clean, by-genre and history
\* files and not the cast-sample file.  Nothing is written afterwards.
C3_Amended ==
    FetchFailed =>
        IF what = "credits"
        THEN CsvWritten = {CleanPath(stamp), ByGenrePath(stamp), HistPath}
        ELSE CsvUntouched

\* a credits fetch has failed for good
C3_Witness == FetchFailed /\ what = "credits"

\* the history file as the run found it
OldHistory == IF HistPath \in DOMAIN fs0 THEN fs0[HistPath] ELSE <<>>

C8_EmptyRunIsNoOp == (pc = "done" /\ acc = <<>>) => CsvUntouched

\* ---- cast sampling
\* min(args.cast_sample, len(df))
SampleSize == IF cast_sample < Len(df) THEN cast_sample ELSE Len(df)

\* the rows among the first n that are a movie or a series
TitlesUpTo(n) ==
    SelectSeq([k \in 1..n |-> k], LAMBDA k : df[k].media_type \in {"movie", "tv"})

\* C9 as claimed: the cast sample is the first min(sample_size, rows) rows
\* and one credits fetch is issued for each of them, whatever its media kind.
C9_OneFetchPerSampledRow ==
    (pc = "done" /\ CastPath(stamp) \in written) =>
        credit_log = [k \in 1..SampleSize |-> k]

\* C9 as amended: top_cast_from_sample goes through the first
\* min(sample_size, rows) rows in table order and issues exactly one credits
\* fetch for each of them whose media kind is movie or tv, and none for a
\* row of another kind or outside the sample; it stops at the first sampled
\* row without an id and at the first credits fetch that fails for good,
\* with no fetch for the rows behind it; with --cast-sample 0 or an empty
\* table no credits fetch is issued and no cast-sample file is written.
C9_Amended ==
    /\ pc = "cast_loop" =>
          idx - 1 <= SampleSize /\ credit_log = TitlesUpTo(idx - 1)
    /\ (pc \in {"fetch", "got"} /\ what = "credits") =>
          idx <= SampleSize /\ credit_log = TitlesUpTo(idx)
    /\ (FetchFailed /\ what = "credits") =>
          idx <= SampleSize /\ credit_log = TitlesUpTo(idx)
    /\ (pc = "raised" /\ exc.type = "ValueError") =>
          idx <= SampleSize /\ credit_log = TitlesUpTo(idx - 1)
    /\ (pc = "done" /\ CastPath(stamp) \in written) =>
          credit_log = TitlesUpTo(SampleSize)
    /\ (pc = "done" /\ (cast_sample = 0 \/ df = <<>>)) =>
          credit_log = <<>> /\ CastPath(stamp) \notin written

\* a sample of two rows out of more, a movie and a person: one fetch
C9_Witness ==
    /\ pc = "done"
    /\ CastPath(stamp) \in written
    /\ cast_sample = 2
    /\ Len(df) > cast_sample
    /\ df[2].media_type = "person"
    /\ credit_log = <<1>>

\* C10: a record with missing fields never makes a run raise: a run ends
\* with an exception only for a missing token or a fetch that failed for
\* good.
C10_MissingFieldsNeverRaise ==
    pc = "raised" => exc.type \in {"RuntimeError", "SystemExit"}

\* ---- normalize / expand_by_genre (SpecPure)
\* the normalized rows in input order, before the sort
UnsortedRows ==
    [i \in 1..Len(acc) |->
        IF script = "trending" THEN TrendingRow(genre_map, acc[i])
        ELSE HistoricalRow(genre_map, acc[i])]

Normalized == pc \in {"pure_normalized", "pure_expanded"}

\* the records in the order of their rows in df
SortedRecords == SortValues(acc)

\* the resolved genre names of the record behind row i of df
NamesOf(i) == GenreNames(genre_map, SortedRecords[i])

\* what the claim expects for row i: one row per resolved genre name, in the
\* record's genre order, or one row with an empty genre
ExpectedSegment(i) ==
    IF NamesOf(i) = <<>> THEN <<WithGenre(df[i], <<>>)>>
    ELSE [j \in 1..Len(NamesOf(i)) |-> WithGenre(df[i], Strip(NamesOf(i)[j]))]

\* the expanded table the claim expects: the expected rows of each row of df,
\* in the order of df
ExpectedTable == Flatten([i \in 1..Len(df) |-> ExpectedSegment(i)])

\* a genre name that survives the join and the split as one token
PlainName(n) == Strip(n) # <<>> /\ \A j \in 1..Len(n) : n[j] # ";"

\* C5 as claimed: whatever the genre map, a record with k genre ids has
\* exactly k expanded rows, one per genre in order (1 with an empty genre
\* when k = 0).
C5_KRowsForAnyMap == pc = "pure_expanded" => df_by_genre = ExpectedTable

\* C5 as amended: when every genre id of the records resolves to a name
\* that is not blank and holds no semicolon, a record with k genre ids has
\* exactly k expanded rows, one per genre in the record's genre order (1 row
\* with an empty genre when k = 0); and whatever the names, every normalized
\* row is a row of the expanded table (without its genre field), so that
\* table has at least as many rows as the normalized one.
C5_Amended ==
    pc = "pure_expanded" =>
        /\ (\A i \in 1..Len(df) : \A j \in 1..Len(NamesOf(i)) : PlainName(NamesOf(i)[j]))
              => df_by_genre = ExpectedTable
        /\ Len(df_by_genre) >= Len(df)
        /\ \A i \in 1..Len(df) : \E j \in 1..Len(df_by_genre) :
              [k \in DOMAIN df[i] |-> df_by_genre[j][k]] = df[i]

\* two records expanded, one with two genres (one of them not in the map)
\* and one with none
C5_Witness ==
    /\ pc = "pure_expanded"
    /\ Len(df) = 2
    /\ Len(NamesOf(1)) = 2
    /\ NamesOf(1)[1] # NamesOf(1)[2]
    /\ PlainName(NamesOf(1)[1])
    /\ NamesOf(2) = <<>>
    /\ Len(df_by_genre) = 3

\* C6: normalize returns one row per record; rows with a popularity come in
\* non-increasing order of it, rows without one behind them; rows of equal
\* popularity (or both without one) keep the order their records had.
C6_StableSort ==
    Normalized =>
        /\ Len(df) = Len(acc)
        /\ \A i, j \in 1..Len(df) :
              i < j =>
                 /\ df[i].popularity = NaN => df[j].popularity = NaN
                 /\ df[j].popularity # NaN => df[i].popularity >= df[j].popularity
        /\ \A p \in {NaN, 1, 2} :
              SelectSeq(df, LAMBDA r : r.popularity = p)
                 = SelectSeq(UnsortedRows, LAMBDA r : r.popularity = p)

\* three records, the first less popular than the two that tie behind it
C6_Witness ==
    /\ Normalized
    /\ Len(acc) = 3
    /\ acc[1].popularity = 1 /\ acc[2].popularity = 2 /\ acc[3].popularity = 2
    /\ acc[2].id = 1 /\ acc[3].id = 2
    /\ df[1].id = 1 /\ df[2].id = 2 /\ df[3].id = acc[1].id

====
